---- MODULE Spec2Model ----
(***************************************************************************)
(* The shared voting queue of PlayIt (src/lib/votingQueue.ts).             *)
(*                                                                         *)
(* The queue is one value stored under one key of a key-value store.       *)
(* Every operation is an async function: it awaits kv.get, runs its        *)
(* synchronous body on the value it got (a private copy), and, when it     *)
(* changed something, awaits kv.set of the whole value.  Requests are      *)
(* served concurrently, so the kv.get and the kv.set of different calls    *)
(* interleave freely; the code holds no lock and uses no compare-and-set.  *)
(***************************************************************************)
EXTENDS Integers, Sequences, FiniteSets, TLC

\* ---------------------------------------------------------------- bounds
MaxClock  == 2      \* Date.now() gives the values 1..MaxClock
MaxCalls  == 2      \* calls made in one run

\* ------------------------------------------------------- program constants
Capacity == 30      \* "if (state.tracks.length >= 30)"

\* The request slots: so many requests can be in flight at once.
Procs == {1, 2}

\* spotifyIds are numbers.  Playlist is a track list one longer than the queue
\* may get.
Playlist == [i \in 1..(Capacity + 1) |-> i]

\* The spotifyIds single-track requests name: the first two of the playlist.
RequestIds == {1, 2}

\* Input lists of add-many requests: the empty list, a list that names one
\* track twice, and the whole playlist.
BulkInputs == {<<>>, <<2, 2>>, Playlist}

\* ------------------------------------------------------------------ state
VARIABLES
    kv,        \* values stored under QUEUE_KEY: {} (no value) or {state}
    clock,     \* the latest value Date.now() gave
    pc,        \* per request: "idle", "run", "set", "done"
    call,      \* per request: the operation called and its arguments
    state,     \* per request: the local `state` object of the call
    seen,      \* per request: what its kv.get answered, kept until its kv.set
    ret,       \* per request: the value the call returns
    cursor,    \* the polling client's lastUpdated (0 before its first fetch)
    view,      \* the polling client's queuedTracks
    cursorStale, \* a kv.set was done since the kv.get that cursor comes from
    readStale,   \* a kv.set was done since the kv.get of the read in flight
    pollMissed,  \* cursorStale as it was at the kv.get of the poll in flight
    calls,       \* number of calls made so far
    kv0          \* which of InitStores was stored when the run began

vars == <<kv, clock, pc, call, state, seen, ret, cursor, view, cursorStale,
          readStale, pollMissed, calls, kv0>>

\* interface QueuedTrack (the display fields are opaque to the queue)
QueuedTrack(id, spotifyId, votes, addedAt) ==
    [id |-> id, spotifyId |-> spotifyId, votes |-> votes, addedAt |-> addedAt]

\* interface VotingQueueState
VotingQueueState(tracks, lastUpdated) ==
    [tracks |-> tracks, lastUpdated |-> lastUpdated]

\* What kv.get answers when nothing was ever stored under the key (null).
Null == VotingQueueState(<<>>, 0)

\* `${track.spotifyId}-${Date.now()}`
TrackId(spotifyId, now) == <<spotifyId, now>>

\* `${track.spotifyId}-${Date.now()}-${Math.random().toString(36).slice(2, 7)}`
BulkTrackId(spotifyId, now, rnd) == <<spotifyId, now, rnd>>

\* The suffixes Math.random() yields: a single value, so that two draws may
\* coincide and no property rests on their being different.
Rand == {1}

\* The random suffixes one add-many call draws, one per input position.
RandDraws(n) == [1..n -> Rand]

\* The track object a caller passes for spotifyId: the display fields apart it
\* holds the spotifyId, and for track 2 also an id, votes and addedAt of the
\* caller's own, as the elements of a raw add-many body can.
CallerTrack(spotifyId) ==
    IF spotifyId = 2
    THEN [spotifyId |-> spotifyId, id |-> <<spotifyId>>, votes |-> 7, addedAt |-> 0]
    ELSE [spotifyId |-> spotifyId]

\* an object spread in which the fields of the first object win
SpreadFirstWins(track, fields) ==
    [f \in DOMAIN track \cup DOMAIN fields |->
        IF f \in DOMAIN track THEN track[f] ELSE fields[f]]

\* { ...track, id: ..., votes: 0, addedAt: ... }: the fields of track, and over
\* them the fields written behind the spread
Spread(track, fields) ==
    [f \in DOMAIN track \cup DOMAIN fields |->
        IF f \in DOMAIN fields THEN fields[f] ELSE track[f]]

\* const newTrack: QueuedTrack = { ...track, id, votes: 0, addedAt: Date.now() }
NewTrack(track, id, now) == Spread(track, [id |-> id, votes |-> 0, addedAt |-> now])

\* ------------------------------------------------------- return values
RetNone          == [kind |-> "none",   tracks |-> <<>>, num |-> 0]
RetNull          == [kind |-> "null",   tracks |-> <<>>, num |-> 0]
RetVoid          == [kind |-> "void",   tracks |-> <<>>, num |-> 0]
RetTrack(t)      == [kind |-> "track",  tracks |-> <<t>>, num |-> 0]
RetTracks(ts)    == [kind |-> "tracks", tracks |-> ts,   num |-> 0]
RetBool(b)       == [kind |-> "bool",   tracks |-> <<>>, num |-> IF b THEN 1 ELSE 0]
RetCount(n)      == [kind |-> "count",  tracks |-> <<>>, num |-> n]
RetState(ts, lu) == [kind |-> "state",  tracks |-> ts,   num |-> lu]
RetUris(us)      == [kind |-> "uris",   tracks |-> us,   num |-> 0]
\* the call does not return: kv.set rejected and the error went up to the caller
RetThrow         == [kind |-> "throw",  tracks |-> <<>>, num |-> 0]
\* the route answered "bad request" without calling the queue
RetBadRequest    == [kind |-> "invalid", tracks |-> <<>>, num |-> 0]

\* -------------------------------------------------------- array helpers
\* tracks.some((t) => t.spotifyId === spotifyId)
Some(tracks, spotifyId) == \E i \in 1..Len(tracks) : tracks[i].spotifyId = spotifyId

\* Array.prototype.sort with (a, b) => b.votes - a.votes: a stable sort, so a
\* track is placed behind every track already placed that compares <= 0 with it,
\* that is, behind every one with at least its votes.
\* the insertion of an unstable sort: a track goes in front of its ties
RECURSIVE InsertByVotesUnstable(_, _)
InsertByVotesUnstable(sorted, t) ==
    IF sorted = <<>> THEN <<t>>
    ELSE IF Head(sorted).votes - t.votes <= 0 THEN <<t>> \o sorted
    ELSE <<Head(sorted)>> \o InsertByVotesUnstable(Tail(sorted), t)

RECURSIVE InsertByVotes(_, _)
InsertByVotes(sorted, t) ==
    IF sorted = <<>> THEN <<t>>
    ELSE IF Head(sorted).votes - t.votes < 0 THEN <<t>> \o sorted
    ELSE <<Head(sorted)>> \o InsertByVotes(Tail(sorted), t)

RECURSIVE SortFrom(_, _)
SortFrom(sorted, rest) ==
    IF rest = <<>> THEN sorted
    ELSE SortFrom(InsertByVotes(sorted, Head(rest)), Tail(rest))

\* [...state.tracks].sort((a, b) => b.votes - a.votes)
SortByVotes(tracks) == SortFrom(<<>>, tracks)

\* ------------------------------------------------------------ the store
\* getState: kv.get's answer, or a fresh empty state stamped with Date.now()
GetState(got, now) == IF got = Null THEN VotingQueueState(<<>>, now) ELSE got

\* kv.get(QUEUE_KEY)
KvGet == IF kv = {} THEN Null ELSE CHOOSE s \in kv : TRUE

\* ------------------------------------------------- bodies of the operations
\* Each body maps the state getState returned to the local state after the
\* synchronous part of the call, whether that state is then written with
\* setState, and the value the call returns.
Outcome(st, write, r) == [state |-> st, write |-> write, ret |-> r]

\* getQueue that sorts state.tracks in place and saves the state
GetQueueBodySavesSorted(st) ==
    Outcome(VotingQueueState(SortByVotes(st.tracks), st.lastUpdated), TRUE,
            RetState(SortByVotes(st.tracks), st.lastUpdated))

\* getQueue
GetQueueBody(st) ==
    Outcome(st, FALSE, RetState(SortByVotes(st.tracks), st.lastUpdated))

\* getQueueIfUpdated
GetQueueIfUpdatedBody(st, since) ==
    IF st.lastUpdated > since
    THEN Outcome(st, FALSE, RetState(SortByVotes(st.tracks), st.lastUpdated))
    ELSE Outcome(st, FALSE, RetNull)

\* `spotify:track:${t.spotifyId}`
TrackUri(spotifyId) == <<"spotify:track:", spotifyId>>

\* getTrackUrisSortedByVotes
GetTrackUrisSortedByVotesBody(st) ==
    LET sorted == SortByVotes(st.tracks)
    IN  Outcome(st, FALSE,
                RetUris([i \in 1..Len(sorted) |-> TrackUri(sorted[i].spotifyId)]))

\* addTrack without its "already exists" check
AddTrackBodyNoExistsCheck(st, spotifyId, now) ==
    IF Len(st.tracks) >= Capacity THEN Outcome(st, FALSE, RetNull)
    ELSE LET newTrack == QueuedTrack(TrackId(spotifyId, now), spotifyId, 0, now)
         IN  Outcome(VotingQueueState(Append(st.tracks, newTrack), now), TRUE,
                     RetTrack(newTrack))

\* addTrack with its size check off by one (> for >=)
AddTrackBodyOffByOne(st, spotifyId, now) ==
    IF Some(st.tracks, spotifyId) THEN Outcome(st, FALSE, RetNull)
    ELSE IF Len(st.tracks) > Capacity THEN Outcome(st, FALSE, RetNull)
    ELSE LET newTrack == QueuedTrack(TrackId(spotifyId, now), spotifyId, 0, now)
         IN  Outcome(VotingQueueState(Append(st.tracks, newTrack), now), TRUE,
                     RetTrack(newTrack))

\* addTrack that stamps and saves the state when it rejects a track
AddTrackBodyWriteOnReject(st, spotifyId, now) ==
    IF Some(st.tracks, spotifyId) \/ Len(st.tracks) >= Capacity
    THEN Outcome(VotingQueueState(st.tracks, now), TRUE, RetNull)
    ELSE LET newTrack == QueuedTrack(TrackId(spotifyId, now), spotifyId, 0, now)
         IN  Outcome(VotingQueueState(Append(st.tracks, newTrack), now), TRUE,
                     RetTrack(newTrack))

\* addTrack that puts the new track in front of the queue (unshift for push)
AddTrackBodyPrepends(st, spotifyId, now) ==
    IF Some(st.tracks, spotifyId) THEN Outcome(st, FALSE, RetNull)
    ELSE IF Len(st.tracks) >= Capacity THEN Outcome(st, FALSE, RetNull)
    ELSE LET newTrack == QueuedTrack(TrackId(spotifyId, now), spotifyId, 0, now)
         IN  Outcome(VotingQueueState(<<newTrack>> \o st.tracks, now), TRUE,
                     RetTrack(newTrack))

\* addTrack
AddTrackBody(st, spotifyId, now) ==
    IF Some(st.tracks, spotifyId) THEN Outcome(st, FALSE, RetNull)
    ELSE IF Len(st.tracks) >= Capacity THEN Outcome(st, FALSE, RetNull)
    ELSE LET newTrack == NewTrack(CallerTrack(spotifyId), TrackId(spotifyId, now), now)
         IN  Outcome(VotingQueueState(Append(st.tracks, newTrack), now), TRUE,
                     RetTrack(newTrack))

\* The for loop of addTracks from input position i on: tracks is state.tracks,
\* added is addedTracks; existingIds is the set of spotifyIds of tracks.
RECURSIVE AddTracksLoop(_, _, _, _, _, _)
AddTracksLoop(tracks, added, inputs, i, now, rnd) ==
    IF i > Len(inputs) THEN <<tracks, added>>
    ELSE IF Len(tracks) >= Capacity THEN <<tracks, added>>
    ELSE IF Some(tracks, inputs[i])
         THEN AddTracksLoop(tracks, added, inputs, i + 1, now, rnd)
    ELSE LET newTrack == NewTrack(CallerTrack(inputs[i]),
                                  BulkTrackId(inputs[i], now, rnd[i]), now)
         IN  AddTracksLoop(Append(tracks, newTrack), Append(added, newTrack),
                           inputs, i + 1, now, rnd)

\* addTracks that returns the whole queue in place of addedTracks
AddTracksBodyReturnsQueue(st, inputs, replaceAll, now, rnd) ==
    LET start == IF replaceAll THEN <<>> ELSE st.tracks
        done  == AddTracksLoop(start, <<>>, inputs, 1, now, rnd)
    IN  Outcome(VotingQueueState(done[1], now), TRUE, RetTracks(done[1]))

\* addTracks that ignores replaceAll
AddTracksBodyNoReplace(st, inputs, replaceAll, now, rnd) ==
    LET done == AddTracksLoop(st.tracks, <<>>, inputs, 1, now, rnd)
    IN  Outcome(VotingQueueState(done[1], now), TRUE, RetTracks(done[2]))

\* addTracks that saves only when it changed the queue
AddTracksBodySkipsEmptyWrite(st, inputs, replaceAll, now, rnd) ==
    LET start == IF replaceAll THEN <<>> ELSE st.tracks
        done  == AddTracksLoop(start, <<>>, inputs, 1, now, rnd)
    IN  IF done[1] = st.tracks
        THEN Outcome(st, FALSE, RetTracks(done[2]))
        ELSE Outcome(VotingQueueState(done[1], now), TRUE, RetTracks(done[2]))

\* addTracks
AddTracksBody(st, inputs, replaceAll, now, rnd) ==
    LET start == IF replaceAll THEN <<>> ELSE st.tracks
        done  == AddTracksLoop(start, <<>>, inputs, 1, now, rnd)
    IN  Outcome(VotingQueueState(done[1], now), TRUE, RetTracks(done[2]))

\* removeTrack that gives the tracks it keeps a fresh vote count
RemoveTrackBodyResetsVotes(st, spotifyId, now) ==
    LET keep(t) == t.spotifyId # spotifyId
        left    == SelectSeq(st.tracks, keep)
        reset   == [k \in 1..Len(left) |-> [left[k] EXCEPT !.votes = 0]]
    IN  IF Len(left) # Len(st.tracks)
        THEN Outcome(VotingQueueState(reset, now), TRUE, RetBool(TRUE))
        ELSE Outcome(VotingQueueState(left, st.lastUpdated), FALSE, RetBool(FALSE))

\* removeTrack
RemoveTrackBody(st, spotifyId, now) ==
    LET keep(t) == t.spotifyId # spotifyId
        left    == SelectSeq(st.tracks, keep)   \* state.tracks.filter
    IN  IF Len(left) # Len(st.tracks)
        THEN Outcome(VotingQueueState(left, now), TRUE, RetBool(TRUE))
        ELSE Outcome(VotingQueueState(left, st.lastUpdated), FALSE, RetBool(FALSE))

\* removeTracks that also matches a track by its spotifyId
RemoveTracksBodyBySpotifyId(st, trackIds, now) ==
    LET keep(t)      == t.id \notin trackIds /\ <<t.spotifyId>> \notin trackIds
        left         == SelectSeq(st.tracks, keep)
        removedCount == Len(st.tracks) - Len(left)
    IN  IF removedCount > 0
        THEN Outcome(VotingQueueState(left, now), TRUE, RetCount(removedCount))
        ELSE Outcome(VotingQueueState(left, st.lastUpdated), FALSE, RetCount(removedCount))

\* removeTracks
RemoveTracksBody(st, trackIds, now) ==
    LET keep(t)      == t.id \notin trackIds
        left         == SelectSeq(st.tracks, keep)   \* state.tracks.filter
        removedCount == Len(st.tracks) - Len(left)
    IN  IF removedCount > 0
        THEN Outcome(VotingQueueState(left, now), TRUE, RetCount(removedCount))
        ELSE Outcome(VotingQueueState(left, st.lastUpdated), FALSE, RetCount(removedCount))

\* state.tracks.find((t) => t.spotifyId === spotifyId): the first such index, or 0
Find(tracks, spotifyId) ==
    IF Some(tracks, spotifyId)
    THEN CHOOSE i \in 1..Len(tracks) :
            /\ tracks[i].spotifyId = spotifyId
            /\ \A j \in 1..(i - 1) : tracks[j].spotifyId # spotifyId
    ELSE 0

\* upvoteTrack counting the vote on every track of the queue
UpvoteTrackBodyAllTracks(st, spotifyId, now) ==
    LET i == Find(st.tracks, spotifyId)
    IN  IF i # 0
        THEN LET voted == [k \in 1..Len(st.tracks) |->
                             [st.tracks[k] EXCEPT !.votes = @ + 1]]
             IN  Outcome(VotingQueueState(voted, now), TRUE, RetTrack(voted[i]))
        ELSE Outcome(st, FALSE, RetNull)

\* upvoteTrack that stamps and saves the state when it finds no track
UpvoteTrackBodyWriteOnMiss(st, spotifyId, now) ==
    LET i == Find(st.tracks, spotifyId)
    IN  IF i # 0
        THEN LET track == [st.tracks[i] EXCEPT !.votes = @ + 1]
             IN  Outcome(VotingQueueState([st.tracks EXCEPT ![i] = track], now), TRUE,
                         RetTrack(track))
        ELSE Outcome(VotingQueueState(st.tracks, now), TRUE, RetNull)

\* upvoteTrack that gives the track it votes for a new addedAt
UpvoteTrackBodyRestamps(st, spotifyId, now) ==
    LET i == Find(st.tracks, spotifyId)
    IN  IF i # 0
        THEN LET track == [st.tracks[i] EXCEPT !.votes = @ + 1, !.addedAt = now]
             IN  Outcome(VotingQueueState([st.tracks EXCEPT ![i] = track], now), TRUE,
                         RetTrack(track))
        ELSE Outcome(st, FALSE, RetNull)

\* upvoteTrack
UpvoteTrackBody(st, spotifyId, now) ==
    LET i == Find(st.tracks, spotifyId)
    IN  IF i # 0
        THEN LET track == [st.tracks[i] EXCEPT !.votes = @ + 1]
             IN  Outcome(VotingQueueState([st.tracks EXCEPT ![i] = track], now), TRUE,
                         RetTrack(track))
        ELSE Outcome(st, FALSE, RetNull)

\* clearQueue: no getState, the new state is built at the call
ClearQueueState(now) == VotingQueueState(<<>>, now)

MutatingOps ==
    {"addTrack", "addTracks", "removeTrack", "removeTracks", "upvoteTrack", "clearQueue"}

\* ---------------------------------------------------------------- requests
Request(op, spotifyId, tracks, replaceAll, trackIds, since) ==
    [op |-> op, spotifyId |-> spotifyId, tracks |-> tracks,
     replaceAll |-> replaceAll, trackIds |-> trackIds, since |-> since]

NoRequest == Request("none", 0, <<>>, FALSE, {}, 0)

ReadOps == {"getQueue", "getQueueIfUpdated"}

\* The tracks now stored (what a client that just fetched the queue knows).
Stored == KvGet.tracks

\* Ids a remove-many request names: the internal id of a stored track, or a
\* spotifyId passed where an id belongs.
KnownIds ==
    {Stored[i].id : i \in {j \in 1..Len(Stored) : Stored[j].spotifyId = 1}}

\* The ids of the stored tracks a client has ticked: those of RequestIds.
SelectedIds ==
    {Stored[i].id : i \in {j \in 1..Len(Stored) : Stored[j].spotifyId \in RequestIds}}

\* The id lists of remove-many requests: one id, one spotifyId, or the ticked
\* ids together with a spotifyId.
TrackIdsChoices ==
    {{id} : id \in KnownIds} \cup {{<<1>>}} \cup {SelectedIds \cup {<<1>>}}

\* The calls a request may make in the current state.
Requests ==
    {Request("addTrack", s, <<>>, FALSE, {}, 0) : s \in RequestIds}
    \cup {Request("addTracks", 0, in, r, {}, 0) : in \in BulkInputs, r \in BOOLEAN}
    \cup {Request("removeTrack", s, <<>>, FALSE, {}, 0) : s \in {1}}
    \cup {Request("removeTracks", 0, <<>>, FALSE, ids, 0) : ids \in TrackIdsChoices}
    \cup {Request("upvoteTrack", s, <<>>, FALSE, {}, 0) : s \in {2}}
    \cup {Request("clearQueue", 0, <<>>, FALSE, {}, 0)}
    \cup {Request("getQueue", 0, <<>>, FALSE, {}, 0) :
            x \in {q \in {0} : \A q2 \in Procs : call[q2].op \notin ReadOps}}
    \cup {Request("getQueueIfUpdated", 0, <<>>, FALSE, {}, cursor) :
            x \in {q \in {0} : cursor > 0 /\ \A q2 \in Procs : call[q2].op \notin ReadOps}}

\* ------------------------------------------------------------------ actions
\* The queue a run starts from: nothing stored yet, a queue of the first three
\* tracks of the playlist, or a queue one track short of full made of the
\* playlist without its first two tracks; each as addTracks leaves it at time 1,
\* the first track of the queue of three having been added by addTrack before.
Fresh == GetState(Null, 1)

InitStores ==
    << {},
       {AddTracksBody(AddTrackBody(Fresh, 1, 1).state, SubSeq(Playlist, 1, 3),
                      FALSE, 1, [i \in 1..3 |-> 1]).state},
       {AddTracksBody(Fresh, SubSeq(Playlist, 3, Capacity + 1), FALSE, 1,
                      [i \in 1..(Capacity - 1) |-> 1]).state} >>

Init ==
    /\ kv0 \in DOMAIN InitStores
    /\ kv = InitStores[kv0]
    /\ seen = [p \in Procs |-> Null]
    /\ calls = 0
    /\ clock = 1
    /\ pc = [p \in Procs |-> "idle"]
    /\ call = [p \in Procs |-> NoRequest]
    /\ state = [p \in Procs |-> Null]
    /\ ret = [p \in Procs |-> RetNone]
    /\ cursor = KvGet.lastUpdated
    /\ view = SortByVotes(KvGet.tracks)
    /\ cursorStale = FALSE
    /\ readStale = FALSE
    /\ pollMissed = FALSE

\* The values Date.now() can give now: the latest reading again, or the next
\* one (only the order of the readings matters, so none is skipped).
DateNow == {t \in {clock, clock + 1} : t <= MaxClock}

\* A slot is free when it holds no call, or a mutating call that has finished
\* (its caller takes nothing over from the answer).
Free(p) == pc[p] = "idle" \/ (pc[p] = "done" /\ call[p].op \notin ReadOps)

\* A new request takes the lowest empty slot, or else the lowest free one (the
\* slots are alike).
TakesSlot(p) ==
    IF \E q \in Procs : pc[q] = "idle"
    THEN pc[p] = "idle" /\ \A q \in Procs : q < p => pc[q] # "idle"
    ELSE Free(p) /\ \A q \in Procs : q < p => ~Free(q)

\* A request calls an operation.  Every operation but clearQueue starts with
\* `await getState()`, and the step ends when kv.get has answered: the call
\* holds the stored value.  clearQueue builds its state and goes straight to
\* `await setState(...)`.
Call(p) ==
    /\ TakesSlot(p)
    /\ calls < MaxCalls
    /\ calls' = calls + 1
    /\ \E c \in Requests :
        /\ call' = [call EXCEPT ![p] = c]
        /\ IF c.op = "clearQueue"
           THEN \E now \in DateNow :
                /\ clock' = now
                /\ pc' = [pc EXCEPT ![p] = "set"]
                /\ state' = [state EXCEPT ![p] = ClearQueueState(now)]
                /\ ret' = [ret EXCEPT ![p] = RetVoid]
                /\ seen' = [seen EXCEPT ![p] = Null]
                /\ UNCHANGED <<readStale, pollMissed>>
           ELSE /\ pc' = [pc EXCEPT ![p] = "run"]
                /\ state' = [state EXCEPT ![p] = KvGet]
                /\ seen' = [seen EXCEPT ![p] = KvGet]
                /\ IF c.op \in ReadOps
                   THEN readStale' = FALSE /\ pollMissed' = cursorStale
                   ELSE UNCHANGED <<readStale, pollMissed>>
                /\ ret' = [ret EXCEPT ![p] = RetNone]
                /\ UNCHANGED clock
    /\ UNCHANGED <<kv, cursor, view, cursorStale, kv0>>

\* The synchronous part of the call after getState, up to its return or to
\* its `await setState(state)`.
Finish(p, now, out) ==
    /\ clock' = now
    /\ state' = [state EXCEPT ![p] = out.state]
    /\ ret' = [ret EXCEPT ![p] = out.ret]
    /\ pc' = [pc EXCEPT ![p] = IF out.write THEN "set" ELSE "done"]
    /\ UNCHANGED <<kv, call, seen, cursor, view, cursorStale, readStale, pollMissed,
                   calls, kv0>>

Running(p, op) == pc[p] = "run" /\ call[p].op = op

getQueue(p) ==
    /\ Running(p, "getQueue")
    /\ \E now \in DateNow : Finish(p, now, GetQueueBody(GetState(state[p], now)))

getQueueIfUpdated(p) ==
    /\ Running(p, "getQueueIfUpdated")
    /\ \E now \in DateNow :
         Finish(p, now, GetQueueIfUpdatedBody(GetState(state[p], now), call[p].since))

addTrack(p) ==
    /\ Running(p, "addTrack")
    /\ \E now \in DateNow :
         Finish(p, now, AddTrackBody(GetState(state[p], now), call[p].spotifyId, now))

addTracks(p) ==
    /\ Running(p, "addTracks")
    /\ \E now \in DateNow, rnd \in RandDraws(Len(call[p].tracks)) :
         Finish(p, now, AddTracksBody(GetState(state[p], now), call[p].tracks,
                                      call[p].replaceAll, now, rnd))

removeTrack(p) ==
    /\ Running(p, "removeTrack")
    /\ \E now \in DateNow :
         Finish(p, now, RemoveTrackBody(GetState(state[p], now), call[p].spotifyId, now))

removeTracks(p) ==
    /\ Running(p, "removeTracks")
    /\ \E now \in DateNow :
         Finish(p, now, RemoveTracksBody(GetState(state[p], now), call[p].trackIds, now))

upvoteTrack(p) ==
    /\ Running(p, "upvoteTrack")
    /\ \E now \in DateNow :
         Finish(p, now, UpvoteTrackBody(GetState(state[p], now), call[p].spotifyId, now))

\* a kv.set that stores a replacing add-many in two writes: the emptied queue
\* first, the new list after it
SetEmptiesFirst(p) ==
    /\ pc[p] = "set"
    /\ IF /\ call[p].op = "addTracks" /\ call[p].replaceAll
          /\ state[p].tracks # <<>>
          /\ kv # {VotingQueueState(<<>>, state[p].lastUpdated)}
       THEN /\ kv' = {VotingQueueState(<<>>, state[p].lastUpdated)}
            /\ pc' = pc
       ELSE /\ kv' = {state[p]}
            /\ pc' = [pc EXCEPT ![p] = "done"]
    /\ cursorStale' = (cursor > 0)
    /\ readStale' = \E q \in Procs : call[q].op \in ReadOps /\ pc[q] \in {"run", "done"}
    /\ seen' = [seen EXCEPT ![p] = Null]
    /\ UNCHANGED <<clock, call, state, ret, cursor, view, pollMissed, calls, kv0>>

\* kv.set takes effect: the whole stored value is replaced by the call's state
Set(p) ==
    /\ pc[p] = "set"
    /\ kv' = {state[p]}
    /\ pc' = [pc EXCEPT ![p] = "done"]
    /\ cursorStale' = (cursor > 0)
    /\ readStale' = \E q \in Procs : call[q].op \in ReadOps /\ pc[q] \in {"run", "done"}
    /\ seen' = [seen EXCEPT ![p] = Null]
    /\ UNCHANGED <<clock, call, state, ret, cursor, view, pollMissed, calls, kv0>>

\* a client that shows the tracks of a returned state but keeps its old cursor
ReturnKeepsCursor(p) ==
    /\ pc[p] = "done"
    /\ call[p].op \in ReadOps
    /\ pc' = [pc EXCEPT ![p] = "idle"]
    /\ call' = [call EXCEPT ![p] = NoRequest]
    /\ state' = [state EXCEPT ![p] = Null]
    /\ seen' = [seen EXCEPT ![p] = Null]
    /\ ret' = [ret EXCEPT ![p] = RetNone]
    /\ IF ret[p].kind = "state"
       THEN view' = ret[p].tracks /\ UNCHANGED <<cursor, cursorStale>>
       ELSE UNCHANGED <<cursor, view, cursorStale>>
    /\ readStale' = FALSE
    /\ pollMissed' = FALSE
    /\ UNCHANGED <<kv, clock, calls, kv0>>

\* The answer to a fetch of the polling client arrives and is taken over as in
\* fetchQueue: a returned state sets the client's queuedTracks and lastUpdated,
\* "not updated" leaves them as they are.
Return(p) ==
    /\ pc[p] = "done"
    /\ call[p].op \in ReadOps
    /\ pc' = [pc EXCEPT ![p] = "idle"]
    /\ call' = [call EXCEPT ![p] = NoRequest]
    /\ state' = [state EXCEPT ![p] = Null]
    /\ seen' = [seen EXCEPT ![p] = Null]
    /\ ret' = [ret EXCEPT ![p] = RetNone]
    /\ IF ret[p].kind = "state"
       THEN cursor' = ret[p].num /\ view' = ret[p].tracks /\ cursorStale' = readStale
       ELSE UNCHANGED <<cursor, view, cursorStale>>
    /\ readStale' = FALSE
    /\ pollMissed' = FALSE
    /\ UNCHANGED <<kv, clock, calls, kv0>>

Next ==
    \E p \in Procs :
        \/ Call(p)
        \/ getQueue(p)
        \/ getQueueIfUpdated(p)
        \/ addTrack(p)
        \/ addTracks(p)
        \/ removeTrack(p)
        \/ removeTracks(p)
        \/ upvoteTrack(p)
        \/ Set(p)
        \/ Return(p)

Spec == Init /\ [][Next]_vars

\* -------------------------------------------------- the export of the queue
\* getTrackUrisSortedByVotes is called: the step ends when kv.get has answered.
CallUris(p) ==
    /\ TakesSlot(p)
    /\ calls < MaxCalls
    /\ calls' = calls + 1
    /\ call' = [call EXCEPT ![p] = Request("getTrackUrisSortedByVotes", 0, <<>>, FALSE, {}, 0)]
    /\ pc' = [pc EXCEPT ![p] = "run"]
    /\ state' = [state EXCEPT ![p] = KvGet]
    /\ seen' = [seen EXCEPT ![p] = KvGet]
    /\ ret' = [ret EXCEPT ![p] = RetNone]
    /\ UNCHANGED <<kv, clock, cursor, view, cursorStale, readStale, pollMissed, kv0>>

getTrackUrisSortedByVotes(p) ==
    /\ Running(p, "getTrackUrisSortedByVotes")
    /\ \E now \in DateNow :
         Finish(p, now, GetTrackUrisSortedByVotesBody(GetState(state[p], now)))

ReadsNext ==
    \/ Next
    \/ \E p \in Procs :
        \/ CallUris(p)
        \/ getTrackUrisSortedByVotes(p)

ReadsSpec == Init /\ [][ReadsNext]_vars

\* --------------------------------------------------------------- the routes
\* Requests whose body lacks what the route needs: POST /api/queue with neither
\* tracks nor spotifyId, POST /api/queue/remove with no or an empty trackIds,
\* POST /api/queue/vote and DELETE /api/queue/[spotifyId] without spotifyId
\* (0 stands for a missing spotifyId).
MalformedRequests ==
    {Request("addTrack", 0, <<>>, FALSE, {}, 0),
     Request("removeTracks", 0, <<>>, FALSE, {}, 0),
     Request("upvoteTrack", 0, <<>>, FALSE, {}, 0),
     Request("removeTrack", 0, <<>>, FALSE, {}, 0)}

\* The input checks of the route handlers.  POST /api/queue takes every array
\* as tracks, the empty one too.
Valid(c) ==
    CASE c.op = "addTracks"    -> TRUE
      [] c.op = "addTrack"     -> c.spotifyId # 0
      [] c.op = "removeTracks" -> c.trackIds # {}
      [] c.op = "upvoteTrack"  -> c.spotifyId # 0
      [] c.op = "removeTrack"  -> c.spotifyId # 0
      [] OTHER                 -> TRUE

\* The HTTP status the route answers for call c that ended with r.  An error
\* thrown by the queue is caught and answered with 500, or is left to the
\* framework, which answers 500.
Status(c, r) ==
    CASE r.kind = "invalid"                                   -> 400
      [] r.kind = "throw"                                     -> 500
      [] c.op = "addTrack" /\ r = RetNull                     -> 400
      [] c.op = "upvoteTrack" /\ r = RetNull                  -> 404
      [] c.op = "removeTrack" /\ r = RetBool(FALSE)           -> 404
      [] OTHER                                                -> 200

\* No request is being served.
NoneInFlight == \A q \in Procs : pc[q] \in {"idle", "done"}

\* A malformed request arrives: the route answers 400 and calls nothing.
Invalid(p) ==
    /\ TakesSlot(p)
    /\ calls < MaxCalls
    /\ calls' = calls + 1
    /\ \E c \in MalformedRequests :
        /\ ~Valid(c)
        /\ call' = [call EXCEPT ![p] = c]
    /\ pc' = [pc EXCEPT ![p] = "done"]
    /\ ret' = [ret EXCEPT ![p] = RetBadRequest]
    /\ state' = [state EXCEPT ![p] = Null]
    /\ seen' = [seen EXCEPT ![p] = Null]
    /\ UNCHANGED <<kv, clock, cursor, view, cursorStale, readStale, pollMissed, kv0>>

\* a failing kv.set whose error is swallowed: the call returns its value
SetFailsSwallowed(p) ==
    /\ pc[p] = "set"
    /\ pc' = [pc EXCEPT ![p] = "done"]
    /\ seen' = [seen EXCEPT ![p] = Null]
    /\ UNCHANGED <<kv, clock, call, state, ret, cursor, view, cursorStale, readStale,
                   pollMissed, calls, kv0>>

\* kv.set rejects (the store is unreachable): nothing is stored, the error
\* goes up through `await setState(state)` and the call ends with it.
SetFails(p) ==
    /\ pc[p] = "set"
    /\ pc' = [pc EXCEPT ![p] = "done"]
    /\ ret' = [ret EXCEPT ![p] = RetThrow]
    /\ seen' = [seen EXCEPT ![p] = Null]
    /\ UNCHANGED <<kv, clock, call, state, cursor, view, cursorStale, readStale,
                   pollMissed, calls, kv0>>

\* Requests served one after the other, malformed ones among them, with a
\* store whose writes may fail.
RouteNext ==
    \E p \in Procs :
        \/ NoneInFlight /\ Call(p)
        \/ NoneInFlight /\ Invalid(p)
        \/ getQueue(p)
        \/ getQueueIfUpdated(p)
        \/ addTrack(p)
        \/ addTracks(p)
        \/ removeTrack(p)
        \/ removeTracks(p)
        \/ upvoteTrack(p)
        \/ Set(p)
        \/ SetFails(p)
        \/ Return(p)

RouteSpec == Init /\ [][RouteNext]_vars

\* ------------------------------------------------------- the polling client
\* The client's timer fires (poll, every POLL_INTERVAL, one fetch at a time):
\* fetchQueue(lastUpdated) once lastUpdated > 0, the initial fetchQueue() before.
\* These fetches go on for ever and are not counted in calls.
Poll(p) ==
    /\ TakesSlot(p)
    /\ \A q \in Procs : call[q].op \notin ReadOps
    /\ call' = [call EXCEPT ![p] =
                  IF cursor > 0
                  THEN Request("getQueueIfUpdated", 0, <<>>, FALSE, {}, cursor)
                  ELSE Request("getQueue", 0, <<>>, FALSE, {}, 0)]
    /\ pc' = [pc EXCEPT ![p] = "run"]
    /\ state' = [state EXCEPT ![p] = KvGet]
    /\ seen' = [seen EXCEPT ![p] = KvGet]
    /\ ret' = [ret EXCEPT ![p] = RetNone]
    /\ readStale' = FALSE
    /\ pollMissed' = cursorStale
    /\ UNCHANGED <<kv, clock, cursor, view, cursorStale, calls, kv0>>

\* A call that was made goes on: its awaits resolve.
Proceed(p) ==
    \/ getQueue(p)
    \/ getQueueIfUpdated(p)
    \/ addTrack(p)
    \/ addTracks(p)
    \/ removeTrack(p)
    \/ removeTracks(p)
    \/ upvoteTrack(p)
    \/ Set(p)
    \/ Return(p)

\* While the client polls, one mutating request arrives (any but the add of
\* the whole playlist).
Mutate(p) ==
    /\ Call(p)
    /\ calls = 0
    /\ call'[p].op \in MutatingOps
    /\ call'[p].tracks # Playlist

\* The client polls a queue that is empty or short.
PollInit == Init /\ kv0 \in {1, 2}

PollNext == \E p \in Procs : Mutate(p) \/ Poll(p) \/ Proceed(p)

\* Every call made runs to its end and the client's timer keeps firing;
\* nothing makes a mutating request arrive.
FairSpec ==
    /\ PollInit /\ [][PollNext]_vars
    /\ \A p \in Procs : WF_vars(Proceed(p))
    /\ WF_vars(\E p \in Procs : Poll(p))

\* ------------------------------------------- the client's own requests
\* The client asks for a mutation (upvote, add, remove, clear).
ClientMutate(p) == Call(p) /\ call'[p].op \in MutatingOps

\* The route of a mutation that succeeded answers with `queue: await
\* getQueue()`: a kv.get of its own, made after the mutation returned.  One
\* request of the client's own is answered at a time; the other mutations are
\* those of other clients.
Respond(p) ==
    /\ pc[p] = "done"
    /\ \A q \in Procs : pc[q] # "sent"
    /\ call[p].op \in MutatingOps
    /\ Status(call[p], ret[p]) = 200
    /\ \E now \in DateNow :
        /\ clock' = now
        /\ ret' = [ret EXCEPT ![p] = GetQueueBody(GetState(KvGet, now)).ret]
    /\ seen' = [seen EXCEPT ![p] = KvGet]
    /\ pc' = [pc EXCEPT ![p] = "sent"]
    /\ UNCHANGED <<kv, call, state, cursor, view, cursorStale, readStale, pollMissed,
                   calls, kv0>>

\* The answer to the client's mutation arrives: the handler sets queuedTracks
\* and lastUpdated from data.queue.  (cursorStale: the store holds another value
\* than the one the answer was read from.)
Adopt(p) ==
    /\ pc[p] = "sent"
    /\ cursor' = ret[p].num
    /\ view' = ret[p].tracks
    /\ cursorStale' = (KvGet # seen[p])
    /\ pc' = [pc EXCEPT ![p] = "idle"]
    /\ call' = [call EXCEPT ![p] = NoRequest]
    /\ state' = [state EXCEPT ![p] = Null]
    /\ seen' = [seen EXCEPT ![p] = Null]
    /\ ret' = [ret EXCEPT ![p] = RetNone]
    /\ UNCHANGED <<kv, clock, readStale, pollMissed, calls, kv0>>

\* A client that polls and makes requests of its own, next to the requests of
\* others (whose answers it does not get).
ClientNext ==
    \E p \in Procs :
        \/ ClientMutate(p)
        \/ Poll(p)
        \/ getQueueIfUpdated(p)
        \/ addTrack(p)
        \/ addTracks(p)
        \/ removeTrack(p)
        \/ removeTracks(p)
        \/ upvoteTrack(p)
        \/ Set(p)
        \/ Return(p)
        \/ Respond(p)
        \/ Adopt(p)

\* The client has fetched a stored queue: it holds a cursor and a view.
ClientInit == Init /\ kv0 # 1

ClientSpec == ClientInit /\ [][ClientNext]_vars

\* ------------------------------------------------------------------ claims
StoredTracks == KvGet.tracks

Busy(p, op) == pc[p] # "idle" /\ call[p].op = op

Done(p, op) == pc[p] = "done" /\ call[p].op = op

\* No two tracks of a list carry the same spotifyId.
UniqueSpotifyIds(tracks) ==
    Cardinality({tracks[i].spotifyId : i \in 1..Len(tracks)}) = Len(tracks)

\* C1: in every reachable state, whatever the calls and however their kv.get and
\* kv.set steps interleave, no two stored tracks have the same spotifyId.
C1_UniqueSpotifyIds == UniqueSpotifyIds(StoredTracks)

\* C1's case: an addTracks call whose input names one track twice has written,
\* and the stored queue holds that track next to others.
C1_Witness ==
    \E p \in Procs :
        /\ Done(p, "addTracks")
        /\ call[p].tracks = <<2, 2>>
        /\ Len(ret[p].tracks) = 1
        /\ kv = {state[p]}
        /\ Len(StoredTracks) > 1

\* C2: in every reachable state the stored queue holds at most 30 tracks, also
\* when admissions run concurrently.
C2_AtMostCapacity == Len(StoredTracks) <= Capacity

\* C2's case: two addTrack calls for different tracks both read a queue one
\* short of full and both were admitted; both have written and the queue is full.
C2_Witness ==
    /\ Len(StoredTracks) = Capacity
    /\ \A p \in Procs :
        /\ Done(p, "addTrack")
        /\ ret[p].kind = "track"
        /\ Len(state[p].tracks) = Capacity
    /\ \E p, q \in Procs : call[p].spotifyId # call[q].spotifyId

\* --- sequential executions, for C4
\* The body of mutating call c on state st.
BodyOf(c, st, now, rnd) ==
    CASE c.op = "addTrack"     -> AddTrackBody(st, c.spotifyId, now)
      [] c.op = "addTracks"    -> AddTracksBody(st, c.tracks, c.replaceAll, now, rnd)
      [] c.op = "removeTrack"  -> RemoveTrackBody(st, c.spotifyId, now)
      [] c.op = "removeTracks" -> RemoveTracksBody(st, c.trackIds, now)
      [] c.op = "upvoteTrack"  -> UpvoteTrackBody(st, c.spotifyId, now)
      [] c.op = "clearQueue"   -> Outcome(ClearQueueState(now), TRUE, RetVoid)

\* Call c run alone, from kv.get to return, on the stored value `stored`.
RunAlone(stored, c, now, rnd) ==
    LET got == IF stored = {} THEN Null ELSE CHOOSE x \in stored : TRUE
        out == BodyOf(c, GetState(got, now), now, rnd)
    IN  [kv |-> IF out.write THEN {out.state} ELSE stored, ret |-> out.ret]

\* Tracks and return values compared by what they say about the queue: which
\* tracks, in which order, with how many votes (not by their timestamps).
Content(tracks) == [i \in 1..Len(tracks) |-> <<tracks[i].spotifyId, tracks[i].votes>>]

RetContent(r) == <<r.kind, Content(r.tracks), IF r.kind \in {"bool", "count"} THEN r.num ELSE 0>>

\* The calls in the slots, run one after the other in the given order of slots
\* from `stored`, return what they returned and leave the tracks now stored.
RECURSIVE SerialOrderFits(_, _)
SerialOrderFits(stored, order) ==
    IF order = <<>>
    THEN Content(IF stored = {} THEN <<>> ELSE (CHOOSE x \in stored : TRUE).tracks)
            = Content(KvGet.tracks)
    ELSE \E now \in 1..MaxClock, rnd \in RandDraws(Len(call[Head(order)].tracks)) :
            LET a == RunAlone(stored, call[Head(order)], now, rnd)
            IN  /\ RetContent(a.ret) = RetContent(ret[Head(order)])
                /\ SerialOrderFits(a.kv, Tail(order))

SlotOrders == {o \in [1..Cardinality(Procs) -> Procs] : \A i, j \in DOMAIN o : i # j => o[i] # o[j]}

\* C3: two concurrent addTrack calls for different spotifyIds on a queue that
\* holds neither and has room for both, both returning a created track, leave
\* both tracks in the stored queue once both have finished.
C3_BothAddsStored ==
    \A p, q \in Procs :
        ( /\ p # q
          /\ calls = 2
          /\ Done(p, "addTrack") /\ Done(q, "addTrack")
          /\ call[p].spotifyId # call[q].spotifyId
          /\ ret[p].kind = "track" /\ ret[q].kind = "track" )
        => /\ Some(StoredTracks, call[p].spotifyId)
           /\ Some(StoredTracks, call[q].spotifyId)

\* C4: mutations are serializable: when the calls made so far are mutating
\* calls, one per slot, and all have finished, then some order of running them
\* one after the other from the initial store gives every call the value it
\* returned and gives the tracks now stored.
C4_Serializable ==
    ( /\ calls = Cardinality(Procs)
      /\ \A p \in Procs : pc[p] = "done" /\ call[p].op \in MutatingOps )
    => \E order \in SlotOrders : SerialOrderFits(InitStores[kv0], order)

\* The effect of upvoteTrack(s) on a stored list: the track s has one vote more,
\* it is what the call returns, and nothing else differs.
UpvotedBy(old, new, s, r) ==
    /\ Len(new) = Len(old)
    /\ \A i \in 1..Len(old) :
        new[i] = IF old[i].spotifyId = s
                 THEN [old[i] EXCEPT !.votes = old[i].votes + 1]
                 ELSE old[i]
    /\ r.kind = "track"
    /\ \E i \in 1..Len(old) : old[i].spotifyId = s /\ r.tracks = <<new[i]>>

\* C5: upvoteTrack(s) on a queue that holds s gives s exactly one vote more,
\* returns the updated track and leaves votes, membership and stored order of
\* the other tracks as they were.  (The call's kv.set is compared with the
\* store it replaces, when that store is still the one the call read.)
C5_UpvoteEffect ==
    [][\A p \in Procs :
        ( /\ pc[p] = "set" /\ pc'[p] = "done"
          /\ call[p].op = "upvoteTrack"
          /\ kv = {seen[p]} )
        => UpvotedBy(KvGet.tracks, KvGet'.tracks, call[p].spotifyId, ret[p])]_vars

\* C5's case: the only call made is an upvote of a track in a queue of several
\* tracks; it has written and returned the track.
C5_Witness ==
    \E p \in Procs :
        /\ calls = 1
        /\ Done(p, "upvoteTrack")
        /\ ret[p].kind = "track"
        /\ kv = {state[p]}
        /\ Len(StoredTracks) > 1

\* C6: the votes of a queue entry (told by its internal id) never decrease from
\* one stored state to the next in which the entry is present.
C6_VotesNeverDecrease ==
    [][\A i \in 1..Len(KvGet.tracks), j \in 1..Len(KvGet'.tracks) :
        KvGet.tracks[i].id = KvGet'.tracks[j].id
            => KvGet'.tracks[j].votes >= KvGet.tracks[i].votes]_vars

\* Position of track t in a list that holds it.
PositionIn(tracks, t) == CHOOSE k \in 1..Len(tracks) : tracks[k] = t

\* out holds the tracks of stored, by votes descending, ties in stored order.
\* (Neighbours are compared: the order "more votes, or as many and earlier in
\* stored" is transitive, so it then holds for every pair.)
SortedStable(stored, out) ==
    /\ Len(out) = Len(stored)
    /\ {out[i] : i \in 1..Len(out)} = {stored[i] : i \in 1..Len(stored)}
    /\ \A i \in 1..(Len(out) - 1) :
        \/ out[i].votes > out[i + 1].votes
        \/ /\ out[i].votes = out[i + 1].votes
           /\ PositionIn(stored, out[i]) < PositionIn(stored, out[i + 1])

\* C7: the track list getQueue and getQueueIfUpdated return is a permutation of
\* the stored tracks, sorted by votes descending, equal votes in stored order.
C7_SortedStable ==
    \A p \in Procs :
        (pc[p] = "done" /\ call[p].op \in ReadOps /\ ret[p].kind = "state")
        => SortedStable(seen[p].tracks, ret[p].tracks)

\* C7's case: a read returned a list in another order than the stored one, with
\* two tracks of equal votes in it.
C7_Witness ==
    \E p \in Procs :
        /\ pc[p] = "done" /\ call[p].op \in ReadOps /\ ret[p].kind = "state"
        /\ ret[p].tracks # seen[p].tracks
        /\ \E i, j \in 1..Len(ret[p].tracks) :
             i < j /\ ret[p].tracks[i].votes = ret[p].tracks[j].votes

\* C8: change detection is sound: getQueueIfUpdated(cursor), with the cursor a
\* client took from an earlier read, answers "not updated" (null) if and only if
\* no mutation was committed (no kv.set done) between that read and this one.
C8_ChangeDetectionSound ==
    \A p \in Procs :
        Done(p, "getQueueIfUpdated") => ((ret[p] = RetNull) <=> ~pollMissed)

FirstOccurrences(inputs) ==
    {i \in 1..Len(inputs) : \A j \in 1..(i - 1) : inputs[j] # inputs[i]}

\* st holds exactly the first occurrences of the spotifyIds of inputs, in input
\* order, cut off at Capacity, each with no votes and admitted (stamped and
\* given its id) when st was made.
HoldsExactly(st, inputs) ==
    LET firsts  == FirstOccurrences(inputs)
        rank(i) == Cardinality({j \in firsts : j <= i})
    IN  /\ Len(st.tracks) =
             IF Cardinality(firsts) < Capacity THEN Cardinality(firsts) ELSE Capacity
        /\ \A i \in firsts :
             rank(i) <= Capacity =>
                LET t == st.tracks[rank(i)]
                IN  /\ t.spotifyId = inputs[i]
                    /\ t.votes = 0
                    /\ t.addedAt = st.lastUpdated
                    /\ \E r \in Rand : t.id = BulkTrackId(inputs[i], st.lastUpdated, r)

AppendsAdmitted(old, new, added, inputs) ==
    LET elig    == {i \in FirstOccurrences(inputs) : ~Some(old, inputs[i])}
        rank(i) == Cardinality({j \in elig : j <= i})
        room    == Capacity - Len(old)
    IN  /\ new = old \o added
        /\ Len(added) = IF Cardinality(elig) < room THEN Cardinality(elig) ELSE room
        /\ \A i \in elig :
             rank(i) <= room =>
                /\ added[rank(i)].spotifyId = inputs[i]
                /\ added[rank(i)].votes = 0

\* C11: addTracks(inputs, replaceAll = false) on the queue it read admits the
\* inputs in order, skipping spotifyIds already queued or admitted earlier in the
\* call, up to 30 tracks in the queue; it returns exactly the tracks it appended,
\* in order, and every track that was there keeps its position, id and votes.
C11_AddTracksAppends ==
    [][\A p \in Procs :
        ( /\ pc[p] = "set" /\ pc'[p] = "done"
          /\ call[p].op = "addTracks" /\ ~call[p].replaceAll
          /\ KvGet = seen[p] )
        => AppendsAdmitted(KvGet.tracks, KvGet'.tracks, ret[p].tracks,
                           call[p].tracks)]_vars

\* C11's case: after an upvote of a queued track the playlist, which names the
\* three queued tracks and more tracks than fit, was added: the call admitted
\* 27 tracks and the upvoted track is still first with its vote.
C11_Witness ==
    \E p, q \in Procs :
        /\ kv0 = 2 /\ calls = 2
        /\ Done(q, "upvoteTrack") /\ ret[q].kind = "track"
        /\ Done(p, "addTracks") /\ ~call[p].replaceAll /\ call[p].tracks = Playlist
        /\ kv = {state[p]}
        /\ Len(ret[p].tracks) = Capacity - 3
        /\ Len(StoredTracks) = Capacity
        /\ \E i \in 1..3 : StoredTracks[i].votes = 1

\* new is old without one entry, which has spotifyId s; the others are as they
\* were, in the same order.
RemovedOne(old, new, s) ==
    \E i \in 1..Len(old) :
        /\ old[i].spotifyId = s
        /\ new = [k \in 1..(Len(old) - 1) |-> IF k < i THEN old[k] ELSE old[k + 1]]

\* C12: removeTrack(s) returns true exactly when the queue it read holds a track
\* with spotifyId s; it then stores that queue without that one entry, every
\* other track with its votes and in the same order, stamped with the call's
\* Date.now(); otherwise it returns false and ends without a kv.set, the store
\* left as it is.
C12_RemoveTrackEffect ==
    [][\A p \in Procs :
        /\ (Running(p, "removeTrack") /\ pc'[p] # "run")
           => LET had == Some(state[p].tracks, call[p].spotifyId)
              IN  /\ ret'[p] = RetBool(had)
                  /\ had => /\ pc'[p] = "set"
                            /\ state'[p].lastUpdated = clock'
                            /\ RemovedOne(state[p].tracks, state'[p].tracks,
                                          call[p].spotifyId)
                  /\ ~had => pc'[p] = "done" /\ kv' = kv
        /\ ( /\ pc[p] = "set" /\ pc'[p] = "done"
             /\ call[p].op = "removeTrack"
             /\ KvGet = seen[p] )
           => /\ RemovedOne(KvGet.tracks, KvGet'.tracks, call[p].spotifyId)
              /\ KvGet'.lastUpdated >= KvGet.lastUpdated
              /\ KvGet' = state[p]]_vars

\* C12's case: of three queued tracks the second was upvoted, then the first was
\* removed: the call returned true and the store holds the other two, the
\* upvoted one with its vote.
C12_Witness ==
    \E p, q \in Procs :
        /\ kv0 = 2 /\ calls = 2
        /\ Done(q, "upvoteTrack") /\ call[q].spotifyId = 2 /\ ret[q].kind = "track"
        /\ Done(p, "removeTrack") /\ ret[p] = RetBool(TRUE)
        /\ kv = {state[p]}
        /\ Len(StoredTracks) = 2
        /\ StoredTracks[1].spotifyId = 2 /\ StoredTracks[1].votes = 1

\* old without the entries whose id is in ids, the others in the same order.
Without(old, ids) ==
    LET kept   == {i \in 1..Len(old) : old[i].id \notin ids}
        nth(k) == CHOOSE i \in kept : Cardinality({j \in kept : j <= i}) = k
    IN  [k \in 1..Cardinality(kept) |-> old[nth(k)]]

\* Number of entries of old whose id is in ids.
Matches(old, ids) == Cardinality({i \in 1..Len(old) : old[i].id \in ids})

\* C13: removeTracks(ids) removes exactly the entries of the queue it read whose
\* internal id is in ids and returns their number; a spotifyId given in ids
\* matches no entry; with a count above 0 the call stamps the state with its
\* Date.now() and stores it with one kv.set, with count 0 it ends without a
\* kv.set and the store is left as it is.
C13_RemoveTracksEffect ==
    [][\A p \in Procs :
        /\ (Running(p, "removeTracks") /\ pc'[p] # "run")
           => LET old == state[p].tracks
                  n   == Matches(old, call[p].trackIds)
              IN  /\ ret'[p] = RetCount(n)
                  /\ (\E sid \in RequestIds :
                        call[p].trackIds = {<<sid>>} /\ Some(old, sid)) => n = 0
                  /\ n > 0 => /\ pc'[p] = "set"
                              /\ state'[p].lastUpdated = clock'
                              /\ state'[p].tracks = Without(old, call[p].trackIds)
                  /\ n = 0 => pc'[p] = "done" /\ kv' = kv
        /\ ( /\ pc[p] = "set" /\ pc'[p] = "done"
             /\ call[p].op = "removeTracks"
             /\ KvGet = seen[p] )
           => /\ KvGet'.tracks = Without(KvGet.tracks, call[p].trackIds)
              /\ Len(KvGet'.tracks) = Len(KvGet.tracks) - ret[p].num
              /\ KvGet'.lastUpdated >= KvGet.lastUpdated
              /\ KvGet' = state[p]]_vars

\* C13's case: a request named the ids of two of the three queued tracks and
\* the spotifyId of one of them: two entries were removed, the third is stored.
C13_Witness ==
    \E p \in Procs :
        /\ kv0 = 2
        /\ Done(p, "removeTracks")
        /\ <<1>> \in call[p].trackIds
        /\ ret[p] = RetCount(2)
        /\ kv = {state[p]}
        /\ Len(StoredTracks) = 1 /\ StoredTracks[1].spotifyId = 3

\* C14: clearQueue called when no other call is in flight, on a stored queue
\* that is already empty (as a clearQueue just before leaves it), builds an empty
\* state whose lastUpdated is strictly greater than the stored one, and its
\* kv.set stores that state: two clears in a row give strictly increasing
\* lastUpdated.
C14_ClearTwiceIncreases ==
    [][\A p \in Procs :
        /\ ( /\ \A q \in Procs : pc[q] \in {"idle", "done"}
             /\ pc'[p] = "set" /\ call'[p].op = "clearQueue"
             /\ kv # {} /\ KvGet.tracks = <<>> )
           => /\ state'[p].tracks = <<>>
              /\ state'[p].lastUpdated > KvGet.lastUpdated
        /\ (pc[p] = "set" /\ pc'[p] = "done" /\ call[p].op = "clearQueue")
           => KvGet' = state[p] /\ KvGet'.tracks = <<>>]_vars

\* C15: getQueueIfUpdated(since) returns the state, its tracks sorted, exactly
\* when the stored lastUpdated is strictly greater than since, and null ("no
\* change") otherwise, so also when since equals lastUpdated and when nothing
\* newer is stored; a newer empty queue gives a state with no tracks, not null.
C15_ReturnsIffNewer ==
    \A p \in Procs :
        Done(p, "getQueueIfUpdated")
        => IF seen[p].lastUpdated > call[p].since
           THEN ret[p] = RetState(SortByVotes(seen[p].tracks), seen[p].lastUpdated)
           ELSE ret[p] = RetNull

\* No mutating call is in flight.
MutationsStopped ==
    \A p \in Procs : call[p].op \in MutatingOps => pc[p] = "done"

\* The polling client shows the stored queue: the same tracks with the same
\* votes, in the order the server sends them.
ViewCurrent == view = SortByVotes(StoredTracks)

\* C16: a missed update is only delayed: once mutations have stopped for good
\* and the client keeps polling with its cursor, the client's view eventually
\* equals the stored queue and stays equal.
C16_ViewCatchesUp == (<>[]MutationsStopped) => (<>[]ViewCurrent)

\* C17: when the kv.set of a mutating call fails, the call ends with the error
\* (no return value; the route answers 500), nothing is stored, and the call
\* makes no second attempt: it stays ended.
C17_WriteFailureSurfaces ==
    [][\A p \in Procs :
        /\ (pc[p] = "set" /\ pc'[p] # "set" /\ kv' # {state[p]})
           => /\ call[p].op \in MutatingOps
              /\ ret'[p] = RetThrow
              /\ Status(call'[p], ret'[p]) = 500
              /\ pc'[p] = "done"
              /\ kv' = kv
        /\ (ret[p] = RetThrow /\ call'[p] = call[p] /\ ret'[p] = ret[p])
           => pc'[p] = "done"]_vars

\* C17's case: the write of an addTracks call that replaces a queue of three
\* tracks failed: the call ended with the error and the three tracks are stored.
C17_Witness ==
    \E p \in Procs :
        /\ kv0 = 2 /\ calls = 1
        /\ Done(p, "addTracks") /\ call[p].replaceAll /\ call[p].tracks = Playlist
        /\ ret[p] = RetThrow
        /\ Len(state[p].tracks) = Capacity
        /\ kv = InitStores[kv0]

\* How a request ended, as the claim sorts the outcomes: "invalid" input, a
\* business-rule rejection (duplicate or full on add, not found on upvote and
\* remove), a backend "failure", or something else.
OutcomeKind(c, r) ==
    CASE r.kind = "invalid"                         -> "invalid"
      [] r.kind = "throw"                           -> "failure"
      [] c.op = "addTrack" /\ r = RetNull           -> "rejected"
      [] c.op = "upvoteTrack" /\ r = RetNull        -> "rejected"
      [] c.op = "removeTrack" /\ r = RetBool(FALSE) -> "rejected"
      [] OTHER                                      -> "other"

\* C18: at each endpoint, invalid input, a business-rule rejection and a backend
\* failure are answered with pairwise different HTTP statuses: two requests to
\* the same endpoint that ended in different ones of these ways got different
\* statuses.
C18_DistinctSignals ==
    \A p, q \in Procs :
        ( /\ pc[p] = "done" /\ pc[q] = "done"
          /\ call[p].op = call[q].op
          /\ OutcomeKind(call[p], ret[p]) \in {"invalid", "rejected", "failure"}
          /\ OutcomeKind(call[q], ret[q]) \in {"invalid", "rejected", "failure"}
          /\ OutcomeKind(call[p], ret[p]) # OutcomeKind(call[q], ret[q]) )
        => Status(call[p], ret[p]) # Status(call[q], ret[q])

\* The inputs the claim calls invalid: an add-many request with no tracks, a
\* remove-many request with no ids, an upvote request without spotifyId.
BadInput(c) ==
    \/ c.op = "addTracks" /\ c.tracks = <<>>
    \/ c.op = "removeTracks" /\ c.trackIds = {}
    \/ c.op = "upvoteTrack" /\ c.spotifyId = 0

\* C19: a request with such an input is answered "bad request" before the store
\* is read or written: every step of the request ends it with that answer and
\* leaves the stored tracks and lastUpdated as they are.
C19_InvalidRejectedEarly ==
    [][\A p \in Procs :
        ( /\ BadInput(call'[p])
          /\ pc'[p] # pc[p] \/ call'[p] # call[p] \/ ret'[p] # ret[p] )
        => /\ pc'[p] = "done"
           /\ ret'[p] = RetBadRequest
           /\ Status(call'[p], ret'[p]) = 400
           /\ kv' = kv]_vars

\* The votes of the track with spotifyId s in a list that holds it.
VotesOf(tracks, s) == tracks[Find(tracks, s)].votes

\* The queue stored when the run began.
StoredAtStart == IF InitStores[kv0] = {} THEN <<>> ELSE (CHOOSE st \in InitStores[kv0] : TRUE).tracks

\* C20: concurrent upvotes are not lost: when the calls made are n upvoteTrack(s)
\* calls, however their kv.get and kv.set interleave, and each returned the
\* updated track, the stored votes of s are those it had before plus n.
C20_UpvotesNotLost ==
    \A s \in RequestIds :
        ( /\ calls = Cardinality(Procs)
          /\ \A p \in Procs :
               /\ Done(p, "upvoteTrack")
               /\ call[p].spotifyId = s
               /\ ret[p].kind = "track" )
        => /\ Some(StoredTracks, s)
           /\ VotesOf(StoredTracks, s) = VotesOf(StoredAtStart, s) + Cardinality(Procs)

\* The step is one of call p: it starts the call or takes it further.
StepOf(p) == pc'[p] # pc[p] \/ call'[p] # call[p]

\* C21: lastUpdated is never bumped by a read: a read makes no kv.set, and a
\* read that follows another with no kv.set done between their kv.gets reports
\* the lastUpdated the earlier one reported (the client's cursor), also when
\* nothing was ever stored.
C21_ReadsDoNotBump ==
    [][\A p \in Procs :
        (call'[p].op \in ReadOps /\ StepOf(p))
        => /\ kv' = kv
           /\ pc'[p] # "set"
           /\ ( /\ pc'[p] = "done" /\ ret'[p].kind = "state"
                /\ cursor > 0 /\ ~pollMissed )
              => ret'[p].num = cursor]_vars

\* new is old with the entry t behind it: every entry of old at its place, as
\* it was.
AppendedOne(old, new, t) ==
    /\ Len(new) = Len(old) + 1
    /\ SubSeq(new, 1, Len(old)) = old
    /\ new[Len(new)] = t

\* C22: an addTrack that admits its track puts one new entry behind the tracks
\* of the queue it read, with votes 0, addedAt the call's Date.now() and an id
\* no entry of that queue has, stamps lastUpdated with the call's Date.now() and
\* returns the entry; the entries that were there keep id, votes and position,
\* and the stored queue is one longer.
C22_AddTrackEffect ==
    [][\A p \in Procs :
        /\ (Running(p, "addTrack") /\ pc'[p] = "set")
           => /\ ret'[p].kind = "track"
              /\ LET t   == ret'[p].tracks[1]
                     old == state[p].tracks
                 IN  /\ AppendedOne(old, state'[p].tracks, t)
                     /\ t.spotifyId = call[p].spotifyId
                     /\ t.votes = 0
                     /\ t.addedAt = clock'
                     /\ \A i \in 1..Len(old) : old[i].id # t.id
              /\ state'[p].lastUpdated = clock'
        /\ ( /\ pc[p] = "set" /\ pc'[p] = "done"
             /\ call[p].op = "addTrack"
             /\ KvGet = seen[p] )
           => /\ AppendedOne(KvGet.tracks, KvGet'.tracks, ret[p].tracks[1])
              /\ Len(KvGet'.tracks) = Len(KvGet.tracks) + 1
              /\ KvGet'.lastUpdated >= KvGet.lastUpdated
              /\ KvGet' = state[p]]_vars

\* C22's case: of three queued tracks the first was removed and then added
\* again: it is stored as a new entry behind the two that stayed.
C22_Witness ==
    \E p, q \in Procs :
        /\ kv0 = 2 /\ calls = 2
        /\ Done(q, "removeTrack") /\ ret[q] = RetBool(TRUE)
        /\ Done(p, "addTrack") /\ ret[p].kind = "track"
        /\ kv = {state[p]}
        /\ Len(StoredTracks) = 3
        /\ StoredTracks[1] = StoredAtStart[2] /\ StoredTracks[2] = StoredAtStart[3]
        /\ StoredTracks[3] = ret[p].tracks[1]

\* C23: upvoteTrack(s) on a queue that holds no track with spotifyId s returns
\* null and ends without a kv.set: the store, its votes and its lastUpdated
\* stay as they are.
C23_UpvoteAbsent ==
    [][\A p \in Procs :
        ( /\ Running(p, "upvoteTrack") /\ pc'[p] # "run"
          /\ ~Some(state[p].tracks, call[p].spotifyId) )
        => /\ ret'[p] = RetNull
           /\ pc'[p] = "done"
           /\ state'[p].tracks = state[p].tracks
           /\ kv' = kv]_vars

\* C23's case: an upvote of a track that the queue of 29 tracks does not hold
\* returned null, the store being what it was at the start.
C23_Witness ==
    \E p \in Procs :
        /\ kv0 = 3
        /\ Done(p, "upvoteTrack")
        /\ ret[p] = RetNull
        /\ ~Some(StoredTracks, call[p].spotifyId)
        /\ kv = InitStores[kv0]

\* Call p is an add-many with replaceAll.
Replacing(p) == call[p].op = "addTracks" /\ call[p].replaceAll

\* C24: a replacing add-many changes the store in one kv.set, which stores the
\* complete new list together with its lastUpdated: the call's work before it
\* leaves the store alone, every change of the store is some call's single
\* write of its finished state, and a read gets the value the store holds.
C24_ReplaceAllOneWrite ==
    [][/\ kv' # kv
          => \E p \in Procs : pc[p] = "set" /\ pc'[p] = "done" /\ kv' = {state[p]}
       /\ \A p \in Procs :
            /\ (Replacing(p) /\ pc[p] = "run" /\ pc'[p] # "run")
               => /\ kv' = kv
                  /\ pc'[p] = "set"
                  /\ HoldsExactly(state'[p], call[p].tracks)
            /\ (Replacing(p) /\ pc[p] = "set" /\ StepOf(p))
               => /\ pc'[p] = "done"
                  /\ KvGet' = state[p]
                  /\ HoldsExactly(KvGet', call[p].tracks)
            /\ (call'[p].op \in ReadOps /\ pc[p] # "run" /\ pc'[p] = "run")
               => state'[p] = KvGet]_vars

\* C24's case: a read got the queue of three tracks, and before it returned the
\* playlist replaced that queue: the store holds the full new list, the read
\* what was stored before.
C24_Witness ==
    \E p, q \in Procs :
        /\ kv0 = 2
        /\ Done(p, "addTracks") /\ call[p].replaceAll /\ call[p].tracks = Playlist
        /\ kv = {state[p]}
        /\ Len(StoredTracks) = Capacity
        /\ call[q].op \in ReadOps /\ pc[q] = "run"
        /\ {state[q]} = InitStores[kv0]

\* The step is the arrival of the answer to the client's fetch p.
Answered(p) == pc[p] = "done" /\ call[p].op \in ReadOps /\ pc'[p] # "done"

KeepsEntries(old, new) ==
    LET ids     == {old[i].id : i \in 1..Len(old)}
        sids    == {old[i].spotifyId : i \in 1..Len(old)}
        key(t)  == <<t.id, t.spotifyId, t.addedAt>>
        entries == {key(old[i]) : i \in 1..Len(old)}
    IN  \A j \in 1..Len(new) :
            (new[j].id \in ids \/ new[j].spotifyId \in sids) => key(new[j]) \in entries

\* Call p is one of the operations that keep entries: all but clearQueue and a
\* replacing add-many.
Keeping(p) == call[p].op \in MutatingOps \ {"clearQueue"} /\ ~Replacing(p)

\* C26: upvoteTrack, addTrack, a non-replacing addTracks, removeTrack and
\* removeTracks leave id, spotifyId and addedAt of every entry that stays in
\* the queue as they are: in the state the call works on, and in the store when
\* the call writes over the value it read.
C26_EntryFieldsFixed ==
    [][\A p \in Procs :
        /\ (Keeping(p) /\ pc[p] = "run" /\ pc'[p] # "run")
           => KeepsEntries(state[p].tracks, state'[p].tracks)
        /\ (Keeping(p) /\ pc[p] = "set" /\ pc'[p] = "done" /\ KvGet = seen[p])
           => KeepsEntries(KvGet.tracks, KvGet'.tracks)]_vars

\* C26's case: a track of the queue stored at time 1 was upvoted at time 2: the
\* stored entry has the vote, and the id and addedAt it had.
C26_Witness ==
    \E p \in Procs :
        /\ kv0 = 2
        /\ Done(p, "upvoteTrack") /\ ret[p].kind = "track"
        /\ kv = {state[p]}
        /\ KvGet.lastUpdated = 2
        /\ \E i \in 1..Len(StoredTracks) :
             /\ StoredTracks[i] = ret[p].tracks[1]
             /\ StoredTracks[i].votes = 1
             /\ StoredTracks[i].addedAt = 1
             /\ StoredTracks[i].id = StoredAtStart[i].id

\* C27: internal ids do not collide: the entries of the stored queue have
\* different ids, and an entry that addTrack admits has an id that no entry of
\* the queue stored at the start has (its spotifyId was not in the queue the
\* call read, so an entry of the start with that spotifyId had been removed).
C27_IdsDoNotCollide ==
    /\ \A i, j \in 1..Len(StoredTracks) :
         i # j => StoredTracks[i].id # StoredTracks[j].id
    /\ \A p \in Procs :
         (Busy(p, "addTrack") /\ ret[p].kind = "track")
         => \A i \in 1..Len(StoredAtStart) : StoredAtStart[i].id # ret[p].tracks[1].id

\* C28: id, votes and addedAt of an admitted entry are the queue's: whatever
\* the caller's object carries, each entry addTrack or addTracks admits has
\* votes 0, addedAt the call's Date.now() and the id the queue makes from
\* spotifyId, Date.now() and, in addTracks, the random suffix.
C28_QueueSetsFields ==
    [][\A p \in Procs :
        (call[p].op \in {"addTrack", "addTracks"} /\ pc[p] = "run" /\ pc'[p] # "run")
        => \A i \in 1..Len(ret'[p].tracks) :
             LET t == ret'[p].tracks[i]
             IN  /\ t.votes = 0
                 /\ t.addedAt = clock'
                 /\ IF call[p].op = "addTrack"
                    THEN t.id = TrackId(t.spotifyId, clock')
                    ELSE \E r \in Rand : t.id = BulkTrackId(t.spotifyId, clock', r)
                 /\ \E k \in 1..Len(state'[p].tracks) : state'[p].tracks[k] = t]_vars

\* C28's case: an add-many whose input object carries an id, votes and an
\* addedAt of its own has admitted that track, and the entry is stored.
C28_Witness ==
    \E p \in Procs :
        /\ Done(p, "addTracks")
        /\ kv = {state[p]}
        /\ \E i \in 1..Len(ret[p].tracks) :
             LET t == ret[p].tracks[i]
             IN  /\ {"id", "votes", "addedAt"} \subseteq DOMAIN CallerTrack(t.spotifyId)
                 /\ CallerTrack(t.spotifyId).id # t.id
                 /\ CallerTrack(t.spotifyId).votes # t.votes
                 /\ CallerTrack(t.spotifyId).addedAt # t.addedAt
                 /\ \E k \in 1..Len(StoredTracks) : StoredTracks[k] = t

Reads == ReadOps \cup {"getTrackUrisSortedByVotes"}

\* C29: getQueue, getQueueIfUpdated and getTrackUrisSortedByVotes sort a copy
\* and write nothing: no step of such a call changes the store or takes the
\* call to a kv.set, so the stored order, the votes and lastUpdated are after
\* the read what they were before it.
C29_ReadsWriteNothing ==
    [][\A p \in Procs :
        (call'[p].op \in Reads /\ StepOf(p)) => (kv' = kv /\ pc'[p] # "set")]_vars

\* C29's case: the second of three queued tracks was upvoted and the queue then
\* exported: the export lists that track first, the store still holds it second.
C29_Witness ==
    \E p \in Procs :
        /\ kv0 = 2
        /\ Done(p, "getTrackUrisSortedByVotes")
        /\ Len(ret[p].tracks) = 3
        /\ ret[p].tracks[1] = TrackUri(2)
        /\ StoredTracks[1].spotifyId = 1 /\ StoredTracks[2].spotifyId = 2
        /\ StoredTracks[2].votes = 1
        /\ {state[p]} = kv

\* C30: the stored lastUpdated never decreases from one stored value to the
\* next.
C30_LastUpdatedMonotone ==
    [][(kv # {} /\ kv' # kv) => KvGet'.lastUpdated >= KvGet.lastUpdated]_vars

\* No call that could admit a track is in a slot.
NoAdds == \A r \in Procs : call[r].op \notin {"addTrack", "addTracks"}

\* C31: a track that removeTrack, removeTracks or clearQueue has removed stays
\* out of the stored queue after the call returned, as long as no addTrack or
\* addTracks call is made: no other call brings it back.
C31_RemovedStaysAbsent ==
    \A q \in Procs :
        NoAdds =>
          /\ (Done(q, "removeTrack") /\ ret[q] = RetBool(TRUE))
             => ~Some(StoredTracks, call[q].spotifyId)
          /\ (Done(q, "removeTracks") /\ ret[q].num > 0)
             => \A i \in 1..Len(StoredTracks) : StoredTracks[i].id \notin call[q].trackIds
          /\ Done(q, "clearQueue") => StoredTracks = <<>>

\* C32: addTracks always ends in a kv.set of its state stamped with the call's
\* Date.now(), also when it admitted nothing and replaceAll is false, while a
\* removeTrack or removeTracks that removed nothing ends without a kv.set.
C32_AddTracksAlwaysWrites ==
    [][\A p \in Procs :
        /\ (Running(p, "addTracks") /\ pc'[p] # "run")
           => /\ pc'[p] = "set"
              /\ ret'[p].kind = "tracks"
              /\ state'[p].lastUpdated = clock'
        /\ (pc[p] = "set" /\ pc'[p] = "done" /\ call[p].op = "addTracks")
           => KvGet' = state[p]
        /\ ( /\ call[p].op \in {"removeTrack", "removeTracks"}
             /\ pc[p] = "run" /\ pc'[p] # "run"
             /\ ret'[p].num = 0 )
           => (pc'[p] = "done" /\ kv' = kv)]_vars

\* C32's case: an add-many of tracks the queue of three already holds, made at
\* time 2 without replaceAll, returned no track: the store holds the same
\* tracks, stamped 2.
C32_Witness ==
    \E p \in Procs :
        /\ kv0 = 2 /\ calls = 1
        /\ Done(p, "addTracks") /\ ~call[p].replaceAll /\ call[p].tracks # <<>>
        /\ ret[p] = RetTracks(<<>>)
        /\ kv = {state[p]}
        /\ StoredTracks = StoredAtStart
        /\ KvGet.lastUpdated = 2

\* The answer that arrives for slot p was read from the store before the state
\* the client shows: the client's view was read after the latest kv.set, the
\* answer before it.
OlderAnswer(p) ==
    /\ cursor > 0 /\ ~cursorStale
    /\ \/ Answered(p) /\ ret[p].kind = "state" /\ readStale
       \/ pc[p] = "sent" /\ pc'[p] = "idle" /\ KvGet # seen[p]

\* C33: the client's cursor never decreases and its view never goes back to an
\* older state of the queue, whichever of the answers to a poll and to a
\* request of its own arrives first: the answer that was read earlier neither
\* lowers the cursor nor changes the view when it arrives second.
C33_ClientNeverGoesBack ==
    [][\A p \in Procs : OlderAnswer(p) => (cursor' >= cursor /\ view' = view)]_vars

====
